---------------------------- MODULE Spec2Model ----------------------------
(***************************************************************************)
(* Model of the rating engine of valstats (src/valstats.py): the           *)
(* main-weapon classifier, the duel rating-gain calculator, the rating     *)
(* trajectory builder, the per-tier bias aggregator, the monotonicity      *)
(* repair _adjust_elo and the calibration search calibrate_elo; and of the *)
(* thread pool MultiThread (src/utils.py, src/auth.py).                    *)
(*                                                                         *)
(* Numbers.  Table ratings are integers (rating points), as in the seeded  *)
(* global_elo_map.  Everything the code computes in floating point         *)
(* (expected scores, rating gains, trajectories) is kept in fixed point,   *)
(* in units of 1/Scale of a rating point; per-tier bias scores, which the  *)
(* code divides by a number of players, are kept in units of               *)
(* 1/(Scale*Den), Den being divisible by every possible number of players. *)
(***************************************************************************)
EXTENDS Integers, Sequences, FiniteSets, TLC

VARIABLES
    pc,             \* control point of the operation being run
    match,          \* the match record passed to a per-match function
    user_id,        \* the subject
    initial_elo,    \* the subject's initial rating (fixed point)
    excluded_users, \* the exclusion set
    result,         \* what the per-match / per-corpus function returned
    main_weapon,    \* what get_main_weapon returned
    matches,        \* the match corpus (sequence, in corpus order)
    elo_map,        \* the Rating Table passed to the function being run
    tier,           \* target tier (argument)
    weapon,         \* target weapon (argument of _calibration_score)
    amount,         \* nudge (argument of _adjust_elo)
    new_elo_map,    \* the table _adjust_elo returned
    n_calls,        \* number of _adjust_elo calls made so far
    elos,           \* process_dms_for_elo: weapon class -> rating sequence
    idx,            \* process_dms_for_elo: number of corpus matches consumed
    best_elo_map,   \* calibrate_elo: best_elo_map
    scores,         \* calibrate_elo: scores (of the initial table)
    best_score,     \* calibrate_elo: best_score
    test_scores,    \* calibrate_elo: test_scores of the last iteration
    iteration,      \* calibrate_elo: iteration
    ret,            \* calibrate_elo: the value handed back to the caller
    argsVector,     \* MultiThread: the argument tuples given to the pool
    maxThreads,     \* MultiThread: number of threads of the pool
    lock,           \* MultiThread._lock: 0 when free, else the thread holding it
    nextArgs,       \* MultiThread._nextArgs: elements the iterator has yielded
    thread,         \* MultiThread._threadPool: thread -> position in _doSome
    args,           \* _doSome: thread -> its local args
    calls,          \* thread -> the args it has passed to _function, in order
    joined          \* MultiThread.join: number of threads joined so far

vars == <<pc, match, user_id, initial_elo, excluded_users, result, main_weapon,
          matches, elo_map, tier, weapon, amount, new_elo_map, n_calls,
          elos, idx, best_elo_map, scores, best_score, test_scores,
          iteration, ret, argsVector, maxThreads, lock, nextArgs, thread, args,
          calls, joined>>

gainVars == <<match, user_id, initial_elo, excluded_users, result, main_weapon>>
tableVars == <<elo_map, tier, weapon, amount, new_elo_map, n_calls>>
trajVars == <<elos, idx>>
calVars == <<best_elo_map, scores, best_score, test_scores, iteration, ret>>

poolVars == <<argsVector, maxThreads, lock, nextArgs, thread, args, calls, joined>>

\* The value of a variable an operation does not use.
Idle == "idle"

\* No pool has been made.
NoPool ==
    /\ argsVector = Idle /\ maxThreads = 0 /\ lock = 0 /\ nextArgs = 0
    /\ thread = Idle /\ args = Idle /\ calls = Idle /\ joined = 0

-----------------------------------------------------------------------------
(* Program constants *)

AVERAGE_TIER == 12
LAST_RANK_CHANGE == 1655942400
NUDGE_DISTANCE == 1
MIN_TIER_DIFF == 5
\* Python's None where the code handles a number or None (p.get('competitiveTier')).
None == -1

global_elo_map ==
    (3 :> 1040) @@ (4 :> 1051) @@ (5 :> 1093) @@
    (6 :> 1099) @@ (7 :> 1104) @@ (8 :> 1109) @@
    (9 :> 1140) @@ (10 :> 1157) @@ (11 :> 1166) @@
    (12 :> 1174) @@ (13 :> 1179) @@ (14 :> 1184) @@
    (15 :> 1190) @@ (16 :> 1195) @@ (17 :> 1201) @@
    (18 :> 1206) @@ (19 :> 1211) @@ (20 :> 1216) @@
    (21 :> 1221) @@ (22 :> 1228) @@ (23 :> 1243) @@
    (24 :> 1250) @@ (25 :> 1255) @@ (26 :> 1260) @@
    (27 :> 1280)

-----------------------------------------------------------------------------
(* Fixed point *)

\* One rating point, in fixed-point units.
Scale == 10000

Abs(x) == IF x < 0 THEN 0 - x ELSE x

RECURSIVE Fact(_)
Fact(n) == IF n <= 1 THEN 1 ELSE n * Fact(n - 1)

SetMin(S) == CHOOSE x \in S : \A y \in S : x <= y
SetMax(S) == CHOOSE x \in S : \A y \in S : x >= y

-----------------------------------------------------------------------------
(* elo.expected and elo.elo *)

\* 10^(2^(i-1)/400) * Scale, rounded, for i = 1..9: the powers whose
\* products give 10^(d/400) for every whole d below 512.
Pow10Bits == <<10058, 10116, 10233, 10471, 10965, 12023, 14454, 20893, 43652>>

\* The product of Pow10Bits[i + j] over the binary digits j of d that are 1,
\* each product rounded to the nearest 1/Scale.
RECURSIVE Pow10From(_, _)
Pow10From(d, i) ==
    IF d = 0 THEN Scale
    ELSE LET rest == Pow10From(d \div 2, i + 1)
         IN  IF d % 2 = 1 THEN (rest * Pow10Bits[i] + Scale \div 2) \div Scale
             ELSE rest

\* 10^(d/400) * Scale for a whole number d >= 0 of rating points.
Pow10Whole(d) == Pow10From(d, 1)

\* 10^(D/(400*Scale)) * Scale for a fixed-point difference D >= 0: linear
\* between whole rating points.
Pow10(D) ==
    LET d == D \div Scale
        f == D % Scale
        lo == Pow10Whole(d)
    IN  IF f = 0 THEN lo ELSE lo + ((Pow10Whole(d + 1) - lo) * f) \div Scale

\* elo.expected(A, B) = 1 / (1 + 10 ** ((B - A) / 400)), A and B fixed point,
\* the result rounded to the nearest 1/Scale.
expected(A, B) ==
    LET below(D) == (2 * Scale * Scale + Scale + Pow10(D)) \div (2 * (Scale + Pow10(D)))
    IN  IF B >= A THEN below(B - A) ELSE Scale - below(A - B)

\* elo.elo(old, exp, score, k) = old + k * (score - exp); score is a count of
\* wins (whole), exp and old are fixed point.
elo(old, exp, score, k) == old + k * (score * Scale - exp)

-----------------------------------------------------------------------------
(* Reference data: weapons *)

\* Weapon identifiers as kill events carry them (upper case, as the match
\* service sends them); "ABILITY" is an identifier the weapon table lacks.
WeaponIds == {"VANDAL", "PHANTOM", "ABILITY"}

\* str.lower() on the identifiers above.
Lower(uuid) ==
    CASE uuid = "VANDAL" -> "vandal"
      [] uuid = "PHANTOM" -> "phantom"
      [] uuid = "ABILITY" -> "ability"
      [] OTHER -> uuid

\* get_all_weapons(): the weapon table (uuid, displayName).
get_all_weapons ==
    << [uuid |-> "vandal", displayName |-> "Vandal"],
       [uuid |-> "phantom", displayName |-> "Phantom"] >>

\* get_weapon(uuid=...): the first weapon of the table with that uuid, lower
\* cased; the Vandal (get_weapon(name='vandal')) when there is none.
get_weapon(uuid) ==
    LET weapons == get_all_weapons
        hit == {i \in 1..Len(weapons) : weapons[i].uuid = Lower(uuid)}
        byName == {i \in 1..Len(weapons) : weapons[i].displayName = "Vandal"}
    IN  IF hit # {} THEN weapons[SetMin(hit)] ELSE weapons[SetMin(byName)]

-----------------------------------------------------------------------------
(* get_main_weapon *)

\* The keys of the dict `weapons`, in insertion order: the distinct
\* damageItems of the kills, in order of first appearance.
RECURSIVE DictKeys(_)
DictKeys(kills) ==
    IF kills = <<>> THEN <<>>
    ELSE LET init == DictKeys(SubSeq(kills, 1, Len(kills) - 1))
             w == kills[Len(kills)].damageItem
         IN  IF \E i \in 1..Len(init) : init[i] = w THEN init
             ELSE Append(init, w)

\* weapons[w] once the loop has run.
DictCount(kills, w) == Cardinality({i \in 1..Len(kills) : kills[i].damageItem = w})

\* max(weapons, key=weapons.get): the first key, in iteration order, whose
\* value is the largest.
PyMaxMutLast(keys, kills) ==
    LET best == SetMax({DictCount(kills, keys[i]) : i \in 1..Len(keys)})
    IN  keys[SetMax({i \in 1..Len(keys) : DictCount(kills, keys[i]) = best})]

PyMax(keys, kills) ==
    LET best == SetMax({DictCount(kills, keys[i]) : i \in 1..Len(keys)})
    IN  keys[SetMin({i \in 1..Len(keys) : DictCount(kills, keys[i]) = best})]

get_main_weaponMutVandal(m, u) ==
    LET user_kills == SelectSeq(m.kills, LAMBDA k : k.killer = u)
        keys == DictKeys(user_kills)
    IN  IF keys = <<>> THEN "Vandal"
        ELSE get_weapon(PyMax(keys, user_kills)).displayName

get_main_weapon(m, u) ==
    LET user_kills == SelectSeq(m.kills, LAMBDA k : k.killer = u)
        keys == DictKeys(user_kills)
    IN  IF keys = <<>> THEN "Unknown"
        ELSE get_weapon(PyMax(keys, user_kills)).displayName

-----------------------------------------------------------------------------
(* elo_gain_for_match_for_user *)

get_tier_elo(t, map) == IF t \in DOMAIN map THEN map[t] ELSE None

\* tier is None or tier == 0
is_unrankedMutNone(t) == t = None

is_unranked(t) == t = None \/ t = 0

\* The players of the match whose subject is u, in list order.
PlayersOf(m, u) == SelectSeq(m.players, LAMBDA p : p.subject = u)

NewBucket == [expected |-> 0, actual |-> 0]

\* kill['killer'] in excluded_users or kill['victim'] in excluded_users
excludedMutKiller(kill, excl) == kill.killer \in excl

excluded(kill, excl) == kill.killer \in excl \/ kill.victim \in excl

\* kill_weapon != main_weapon or opponent_main_weapon != main_weapon
other_weaponMutOwn(kill_weapon, opponent_main_weapon, mw) == kill_weapon # mw

other_weapon(kill_weapon, opponent_main_weapon, mw) ==
    kill_weapon # mw \/ opponent_main_weapon # mw

\* What the event adds to 'actual': 1 in the killer's branch, nothing in the
\* victim's.
scoredMutAlways(kill, u) == 1

scored(kill, u) == IF kill.killer = u THEN 1 ELSE 0

\* kill.get('victim') of a record that has no such key.
Missing == "missing"

\* if 'victim' not in kill: kill['victim'] = kill['victim_puuid'].  The
\* assignment writes into the caller's kill event.
with_victim(kill) ==
    IF kill.victim = Missing THEN [kill EXCEPT !.victim = kill.victim_puuid] ELSE kill

\* One pass of the loop body over kill event `kill0`.  `st` is the loop state:
\* the dict match_elo_score, the exception raised so far ("" for none) and the
\* number of kill events the loop has entered.
GainStep(st, kill0, m, u, map, init, excl, mw) ==
    IF st.raised # "" THEN st
    ELSE
    LET kill == with_victim(kill0)
        s1 == [st EXCEPT !.seen = @ + 1]
    IN
    IF kill.killer # u /\ kill.victim # u THEN s1
    ELSE IF excluded(kill, excl) THEN s1
    ELSE IF kill.victim = u /\ kill.killer = u THEN s1
    ELSE
      LET opponent_uuid == IF kill.victim # u THEN kill.victim ELSE kill.killer
          opponent_main_weapon == get_main_weapon(m, opponent_uuid)
          kill_weapon == get_weapon(kill.damageItem).displayName
      IN
      IF other_weapon(kill_weapon, opponent_main_weapon, mw) THEN s1
      ELSE
        LET sc == IF kill_weapon \in DOMAIN s1.score THEN s1.score
                  ELSE s1.score @@ (kill_weapon :> NewBucket)
            opp == PlayersOf(m, opponent_uuid)
        IN
        IF opp = <<>> THEN [s1 EXCEPT !.score = sc, !.raised = "StopIteration"]
        ELSE
          LET opponent_tier == opp[1].competitiveTier IN
          IF is_unranked(opponent_tier) THEN [s1 EXCEPT !.score = sc]
          ELSE IF get_tier_elo(opponent_tier, map) = None
          THEN [s1 EXCEPT !.score = sc, !.raised = "TypeError"]
          ELSE
            LET e == expected(init, get_tier_elo(opponent_tier, map) * Scale)
                won == scored(kill, u)
            IN  [s1 EXCEPT !.score = [sc EXCEPT
                   ![kill_weapon] = [expected |-> @.expected + e,
                                     actual |-> @.actual + won]]]

RECURSIVE GainLoop(_, _, _, _, _, _, _)
GainLoop(kills, m, u, map, init, excl, mw) ==
    IF kills = <<>>
    THEN [score |-> ("Unknown" :> NewBucket), raised |-> "", seen |-> 0]
    ELSE GainStep(GainLoop(SubSeq(kills, 1, Len(kills) - 1), m, u, map, init, excl, mw),
                  kills[Len(kills)], m, u, map, init, excl, mw)

\* The call's outcome: the exception it raised ("" for none) and the value it
\* returned (fixed point).
elo_gain_for_match_for_user(m, u, map, init, excl) ==
    LET mw == get_main_weapon(m, u)
        st == GainLoop(m.kills, m, u, map, init, excl, mw)
    IN  IF st.raised # "" THEN [raised |-> st.raised, value |-> 0]
        ELSE IF mw \notin DOMAIN st.score THEN [raised |-> "", value |-> 0]
        ELSE [raised |-> "",
              value |-> elo(init, st.score[mw].expected, st.score[mw].actual, 1) - init]

\* The caller's match record after the call: every kill event the loop
\* entered has its 'victim' key.
match_after(m, u, map, init, excl) ==
    LET st == GainLoop(m.kills, m, u, map, init, excl, get_main_weapon(m, u))
    IN  [m EXCEPT !.kills = [i \in 1..Len(m.kills) |->
                               IF i <= st.seen THEN with_victim(m.kills[i])
                               ELSE m.kills[i]]]

-----------------------------------------------------------------------------
(* Match records *)

PlayerIds == {"p1", "p2", "p3"}

Player(u, t) == [subject |-> u, competitiveTier |-> t]

\* A kill event as map_to_internal leaves it.
Kill(k, v, w) == [killer |-> k, victim |-> v, victim_puuid |-> v, damageItem |-> w]

\* A kill event of a record stored without the 'victim' key.
StoredKill(k, v, w) ==
    [killer |-> k, victim |-> Missing, victim_puuid |-> v, damageItem |-> w]

\* A match as map_to_internal leaves it: queueID, game_start (seconds; the
\* code's gameStartMillis is game_start * 1000), players, kills.
Match(q, start, ps, ks) ==
    [matchInfo |-> [queueID |-> q, game_start |-> start], players |-> ps, kills |-> ks]

\* Sequences over S of length at most n.
RECURSIVE SeqsUpTo(_, _)
SeqsUpTo(S, n) ==
    IF n = 0 THEN {<<>>}
    ELSE LET shorter == SeqsUpTo(S, n - 1)
         IN  shorter \cup {Append(s, x) : s \in {t \in shorter : Len(t) = n - 1}, x \in S}

\* Longest kill list of a match given to a per-match function.
MaxKills == 3

\* Kill events of the per-match inputs: every duel of the subject p1 with an
\* opponent (p1 kills with any identifier, the opponents with a listed
\* weapon), and p1 killing itself.
GainKills(opps) ==
    {Kill("p1", v, w) : v \in opps, w \in WeaponIds}
    \cup {Kill(k, "p1", w) : k \in opps, w \in {"VANDAL", "PHANTOM"}}
    \cup {Kill("p1", "p1", "VANDAL")}

\* Two-player and three-player matches; p2 ranked in or out of the subject's
\* tier or unranked (0), p3 ranked or without a tier (None).
GainMatches ==
    {Match("deathmatch", LAST_RANK_CHANGE + 1,
           <<Player("p1", 10), Player("p2", t2)>>, ks) :
        t2 \in {0, 10, 13}, ks \in SeqsUpTo(GainKills({"p2"}), MaxKills)}
    \cup
    {Match("deathmatch", LAST_RANK_CHANGE + 1,
           <<Player("p1", 10), Player("p2", t2), Player("p3", t3)>>, ks) :
        t2 \in {0, 10, 13}, t3 \in {None, 10},
        ks \in SeqsUpTo(GainKills({"p2", "p3"}), MaxKills)}

-----------------------------------------------------------------------------
(* Per-match functions on any match: get_main_weapon and
   elo_gain_for_match_for_user *)

InitGain ==
    /\ pc = "input"
    /\ match \in GainMatches
    /\ user_id = "p1"
    /\ initial_elo \in {get_tier_elo(10, global_elo_map) * Scale,
                        get_tier_elo(AVERAGE_TIER, global_elo_map) * Scale + Scale \div 2}
    /\ excluded_users \in {{}, {"p2"}, {"p1"}}
    /\ result = Idle
    /\ main_weapon = Idle
    /\ matches = Idle
    /\ elo_map = global_elo_map
    /\ tier = Idle /\ weapon = Idle /\ amount = Idle
    /\ new_elo_map = Idle /\ n_calls = 0
    /\ elos = Idle /\ idx = 0
    /\ best_elo_map = Idle /\ scores = Idle /\ best_score = 0
    /\ test_scores = Idle /\ iteration = 0 /\ ret = Idle
    /\ NoPool

\* elo_gain_for_match_for_user(match, user_id, elo_map, initial_elo,
\* excluded_users); main_weapon is its local of that name.
CallEloGain ==
    /\ pc = "input"
    /\ pc' = "returned"
    /\ main_weapon' = get_main_weapon(match, user_id)
    /\ result' = elo_gain_for_match_for_user(match, user_id, elo_map, initial_elo,
                                             excluded_users)
    /\ match' = match_after(match, user_id, elo_map, initial_elo, excluded_users)
    /\ UNCHANGED <<user_id, initial_elo, excluded_users, matches>>
    /\ UNCHANGED <<tableVars, trajVars, calVars>>
    /\ UNCHANGED poolVars

NextGain == CallEloGain

SpecGain == InitGain /\ [][NextGain]_vars

-----------------------------------------------------------------------------
(* Claims about the per-match functions (specification SpecGain) *)

\* The sum of f[x] over the finite set S.
RECURSIVE SumOver(_, _)
SumOver(S, f) ==
    IF S = {} THEN 0
    ELSE LET x == CHOOSE y \in S : TRUE IN f[x] + SumOver(S \ {x}, f)

\* The declared tier of player u of match m.
TierOf(m, u) == (CHOOSE i \in 1..Len(m.players) : m.players[i].subject = u)

\* The kill events of match m made by u, as positions in m.kills.
KillsBy(m, u) == {i \in 1..Len(m.kills) : m.kills[i].killer = u}

\* The opponent of u in kill event k.
Opponent(k, u) == IF k.killer = u THEN k.victim ELSE k.killer

\* The qualifying events of C5, as positions in m.kills.
Qualifying(m, u, excl) ==
    {i \in 1..Len(m.kills) :
        LET k == m.kills[i] IN
        /\ (k.killer = u \/ k.victim = u) /\ k.killer # k.victim
        /\ k.killer \notin excl /\ k.victim \notin excl
        /\ m.players[TierOf(m, Opponent(k, u))].competitiveTier \notin {None, 0}
        /\ get_weapon(k.damageItem).displayName = get_main_weapon(m, u)
        /\ get_main_weapon(m, Opponent(k, u)) = get_main_weapon(m, u)}

\* C5: elo_gain_for_match_for_user returns K * (actual - expected), K = 1,
\* where actual counts the qualifying events the subject won and expected
\* sums ExpectedScore(initial rating, table rating of the opponent's tier)
\* over all qualifying events, kills and deaths alike.
C5_GainIsActualMinusExpected ==
    pc = "returned" =>
        LET q == Qualifying(match, user_id, excluded_users)
            actual == Cardinality(q \cap KillsBy(match, user_id))
            exp == [i \in q |->
                      expected(initial_elo,
                               elo_map[match.players[TierOf(match,
                                   Opponent(match.kills[i], user_id))].competitiveTier]
                               * Scale)]
        IN  /\ result.raised = ""
            /\ result.value = 1 * (actual * Scale - SumOver(q, exp))

\* C5's case: a match in which the subject both won and lost qualifying
\* duels, and in which another event of the subject did not qualify.
C5_Witness ==
    /\ pc = "returned"
    /\ LET q == Qualifying(match, user_id, excluded_users) IN
       /\ q \cap KillsBy(match, user_id) # {}
       /\ q \ KillsBy(match, user_id) # {}
       /\ Cardinality(q) < Len(match.kills)
    /\ result.value # 0

\* The scenario of C6: one deathmatch, two players, both tier 10, the subject
\* kills the opponent once with the Vandal, the opponent never kills, and the
\* initial rating is the table rating of tier 10.
C6_Scenario ==
    /\ pc = "returned"
    /\ match.players = <<Player("p1", 10), Player("p2", 10)>>
    /\ match.kills = <<Kill("p1", "p2", "VANDAL")>>
    /\ match.matchInfo.queueID = "deathmatch"
    /\ user_id = "p1"
    /\ initial_elo = get_tier_elo(10, elo_map) * Scale
    /\ excluded_users = {}

\* C6 as stated: in the scenario the rating gain is 0.5.
C6_GainIsHalf == C6_Scenario => result.value = Scale \div 2

\* C6 amended: in the scenario the rating gain is 0, the opponent, having no
\* kill, has main weapon "Unknown" and the kill is no same-weapon duel.
C6_GainIsZero ==
    C6_Scenario =>
        /\ get_main_weapon(match, "p2") = "Unknown"
        /\ main_weapon = "Vandal"
        /\ result = [raised |-> "", value |-> 0]

C6_Witness == C6_Scenario /\ expected(initial_elo, initial_elo) = Scale \div 2

\* The first kill event of u with weapon identifier w, as a position.
FirstKill(m, u, w) == SetMin({i \in KillsBy(m, u) : m.kills[i].damageItem = w})

\* The number of kill events of u with weapon identifier w.
KillCount(m, u, w) == Cardinality({i \in KillsBy(m, u) : m.kills[i].damageItem = w})

\* C7: get_main_weapon returns "Unknown" exactly when the player made no
\* kill; otherwise the display name of a weapon with the most kills by the
\* player, and among weapons tied for the most, the one whose first kill
\* comes earliest.
C7_MainWeapon ==
    pc = "returned" =>
        LET by == KillsBy(match, user_id)
            used == {match.kills[i].damageItem : i \in by}
            top == {w \in used : \A v \in used :
                       KillCount(match, user_id, v) <= KillCount(match, user_id, w)}
        IN  /\ (main_weapon = "Unknown") <=> (by = {})
            /\ by # {} =>
                 \E w \in top :
                    /\ \A v \in top : FirstKill(match, user_id, w) <= FirstKill(match, user_id, v)
                    /\ main_weapon = get_weapon(w).displayName

\* C7's case: two weapons tied for the most kills, and the one that wins the
\* tie differs in name from the other.
C7_Witness ==
    /\ pc = "returned"
    /\ \E w, v \in WeaponIds :
          /\ w # v
          /\ KillCount(match, user_id, w) = KillCount(match, user_id, v)
          /\ KillCount(match, user_id, w) > 0
          /\ \A x \in WeaponIds : KillCount(match, user_id, x) <= KillCount(match, user_id, w)
          /\ FirstKill(match, user_id, w) > FirstKill(match, user_id, v)
          /\ get_weapon(w).displayName # get_weapon(v).displayName
          /\ main_weapon = get_weapon(v).displayName

------------------------------------------------------------------------------------------------------------------------------------------------\* The kill events of match m in which v killed u, as positions in m.kills.
DeathsTo(m, u, v) ==
    {i \in 1..Len(m.kills) : m.kills[i].killer = v /\ m.kills[i].victim_puuid = u}

\* C18: a subject who is the killer in no kill event of the match has main
\* weapon "Unknown" and gets a rating delta of exactly 0, however often
\* ranked, non-excluded opponents killed the subject.
C18_NoKillNoDelta ==
    (pc = "returned" /\ KillsBy(match, user_id) = {}) =>
        /\ main_weapon = "Unknown"
        /\ result = [raised |-> "", value |-> 0]

\* C18's case: a ranked opponent outside the exclusion set killed the subject
\* more than once, with the opponent's own main weapon, and the subject
\* killed nobody.
C18_Witness ==
    /\ pc = "returned"
    /\ KillsBy(match, user_id) = {}
    /\ excluded_users = {}
    /\ match.players[2].competitiveTier = 13
    /\ Cardinality(DeathsTo(match, user_id, "p2")) >= 2
    /\ \A i \in DeathsTo(match, user_id, "p2") :
          get_weapon(match.kills[i].damageItem).displayName = get_main_weapon(match, "p2")
    /\ result.value = 0

-----
(* elo_gain_for_match_for_user on records as they are stored: an opponent
   below the table, a participant who is no player, a kill event without
   the 'victim' key *)

\* The stored form of the kill events of GainKills.
StoredKills(opps) == {StoredKill(k.killer, k.victim_puuid, k.damageItem) : k \in GainKills(opps)}

\* p2 at tier 2 (no key of the table) or 10; p3 a participant of kill events
\* but no player; kill events with and without the 'victim' key; kill events
\* between two others, one of them a player without a tier.
OddMatches ==
    {Match("deathmatch", LAST_RANK_CHANGE + 1,
           <<Player("p1", 10), Player("p2", t2)>>, ks) :
        t2 \in {2, 10}, ks \in SeqsUpTo(GainKills({"p2"}), MaxKills)}
    \cup
    {Match("deathmatch", LAST_RANK_CHANGE + 1,
           <<Player("p1", 10), Player("p2", 10)>>, ks) :
        ks \in SeqsUpTo(GainKills({"p3"}), MaxKills)}
    \cup
    {Match("deathmatch", LAST_RANK_CHANGE + 1,
           <<Player("p1", 10), Player("p2", t2)>>, ks) :
        t2 \in {0, 10},
        ks \in SeqsUpTo({Kill("p1", "p2", "VANDAL"), Kill("p2", "p1", "VANDAL")}
                        \cup StoredKills({"p2"}), MaxKills)}
    \cup
    {Match("deathmatch", LAST_RANK_CHANGE + 1,
           <<Player("p1", 10), Player("p2", 10), Player("p3", None)>>, ks) :
        ks \in SeqsUpTo({Kill("p2", "p3", "VANDAL"), Kill("p3", "p2", "VANDAL"),
                         Kill("p1", "p3", "VANDAL"), Kill("p3", "p1", "VANDAL"),
                         Kill("p1", "p2", "PHANTOM")}, MaxKills)}

InitGainAny ==
    /\ pc = "input"
    /\ match \in OddMatches
    /\ user_id = "p1"
    /\ initial_elo = get_tier_elo(10, global_elo_map) * Scale
    /\ excluded_users \in {{}, {"p2"}, {"p1"}}
    /\ result = Idle
    /\ main_weapon = Idle
    /\ matches = Idle
    /\ elo_map = global_elo_map
    /\ tier = Idle /\ weapon = Idle /\ amount = Idle
    /\ new_elo_map = Idle /\ n_calls = 0
    /\ elos = Idle /\ idx = 0
    /\ best_elo_map = Idle /\ scores = Idle /\ best_score = 0
    /\ test_scores = Idle /\ iteration = 0 /\ ret = Idle
    /\ NoPool

SpecGainAny == InitGainAny /\ [][NextGain]_vars

\* C11: elo_gain_for_match_for_user never fails, whatever the match record
\* and the subject it returns a number.
C11_NeverFails == pc = "returned" => result.raised = ""

\* The call raises TypeError on a duel with an opponent whose nonzero tier is
\* no key of the table, StopIteration on one with a participant who is no
\* player, and nothing else.
C11_RaisesOnlyThere ==
    pc = "returned" =>
        /\ result.raised \in {"", "TypeError", "StopIteration"}
        /\ result.raised = "TypeError" =>
              \E i \in 1..Len(match.kills) :
                 \E j \in 1..Len(match.players) :
                    /\ match.players[j].subject = Opponent(match.kills[i], user_id)
                    /\ match.players[j].competitiveTier \notin DOMAIN elo_map \cup {0, None}
        /\ result.raised = "StopIteration" =>
              \E i \in 1..Len(match.kills) :
                 \A j \in 1..Len(match.players) :
                    match.players[j].subject # Opponent(match.kills[i], user_id)

\* C12: the inputs are left unchanged, the match record (its players and
\* every field of every kill event) and the Rating Table passed in are after
\* a call what they were before it.
C12_InputsUnchanged == [][match' = match /\ elo_map' = elo_map]_vars

\* Kill event i of m is removed by the unranked-opponent rule: the opponent
\* is a player whose declared tier is None or 0.
Unranked(m, u, i) ==
    LET o == IF m.kills[i].killer = u THEN m.kills[i].victim_puuid ELSE m.kills[i].killer
    IN  \E j \in 1..Len(m.players) :
           m.players[j].subject = o /\ m.players[j].competitiveTier \in {None, 0}

\* Kill event i of m passes the filters before the unranked-opponent rule:
\* the subject against somebody else, nobody excluded, the kill weapon and
\* the opponent's main weapon both the subject's main weapon.
Duel(m, u, excl, i) ==
    LET k == m.kills[i]
        o == IF k.killer = u THEN k.victim_puuid ELSE k.killer
    IN  /\ (k.killer = u \/ k.victim_puuid = u) /\ o # u
        /\ k.killer \notin excl /\ k.victim_puuid \notin excl
        /\ get_weapon(k.damageItem).displayName = get_main_weapon(m, u)
        /\ get_main_weapon(m, o) = get_main_weapon(m, u)

\* C13: elo_gain_for_match_for_user returns exactly 0 when no kill event of
\* the match qualifies for the subject, every event being without the
\* subject, removed by the exclusion set, by the same-weapon filter or by the
\* unranked-opponent rule.
C13_ZeroWithoutQualifying ==
    (/\ pc = "returned"
     /\ \A i \in 1..Len(match.kills) :
           Duel(match, user_id, excluded_users, i) => Unranked(match, user_id, i))
    => result = [raised |-> "", value |-> 0]

\* C13's case: with nobody excluded, one event of the subject is removed by
\* the same-weapon filter and another, a lost duel, by the unranked-opponent
\* rule, the main-weapon bucket being there and empty.
C13_Witness ==
    /\ pc = "returned"
    /\ excluded_users = {}
    /\ \A i \in 1..Len(match.kills) :
          Duel(match, user_id, excluded_users, i) => Unranked(match, user_id, i)
    /\ \E i \in 1..Len(match.kills) :
          /\ Duel(match, user_id, excluded_users, i)
          /\ match.kills[i].victim_puuid = user_id
    /\ \E i \in 1..Len(match.kills) :
          /\ match.kills[i].killer = user_id
          /\ get_weapon(match.kills[i].damageItem).displayName # main_weapon
    /\ result.value = 0

-----
(* _adjust_elo *)

MIN_TIER == SetMin(DOMAIN global_elo_map)
MAX_TIER == SetMax(DOMAIN global_elo_map)

\* new_elo_map[tier] + min_diff >= new_elo_map[tier + 1], on the table already
\* changed at `tier`.
cascade_up(new_map, t, min_diff) == new_map[t] + min_diff >= new_map[t + 1]

\* elo_map[tier] - min_diff <= elo_map[tier - 1], on the table passed in.
cascade_downMutStrict(map, t, min_diff) == map[t] - min_diff < map[t - 1]

cascade_down(map, t, min_diff) == map[t] - min_diff <= map[t - 1]

\* new_elo_map = copy.copy(elo_map); new_elo_map[tier] += amount
nudgedMutTwice(map, t, amt) == [map EXCEPT ![t] = @ + 2 * amt]

nudged(map, t, amt) == [map EXCEPT ![t] = @ + amt]

RECURSIVE _adjust_elo(_, _, _, _)
_adjust_elo(t, amt, min_diff, map) ==
    LET new_elo_map1 == nudged(map, t, amt)
        new_elo_map2 ==
            IF amt > 0 /\ t < MAX_TIER /\ cascade_up(new_elo_map1, t, min_diff)
            THEN _adjust_elo(t + 1, 1, min_diff, new_elo_map1)
            ELSE new_elo_map1
    IN  IF amt < 0 /\ t > MIN_TIER /\ cascade_down(map, t, min_diff)
        THEN _adjust_elo(t - 1, -1, min_diff, new_elo_map2)
        ELSE new_elo_map2

\* Number of successive _adjust_elo calls followed.
MaxCalls == 2

\* A table over the seeded tiers whose every gap is exactly min_diff.
TightTable == [t \in DOMAIN global_elo_map |-> 1000 + MIN_TIER_DIFF * (t - MIN_TIER)]

InitAdjust ==
    /\ pc = "table"
    /\ elo_map \in {global_elo_map, TightTable}
    /\ new_elo_map = elo_map
    /\ tier = Idle /\ amount = 0 /\ n_calls = 0
    /\ weapon = Idle
    /\ match = Idle /\ user_id = Idle /\ initial_elo = 0 /\ excluded_users = {}
    /\ result = Idle /\ main_weapon = Idle /\ matches = Idle
    /\ elos = Idle /\ idx = 0
    /\ best_elo_map = Idle /\ scores = Idle /\ best_score = 0
    /\ test_scores = Idle /\ iteration = 0 /\ ret = Idle
    /\ NoPool

\* new_elo_map = _adjust_elo(tier, amount, MIN_TIER_DIFF, elo_map), called as
\* calibrate_elo calls it: on the table the previous call returned.
CallAdjustElo ==
    /\ pc = "table"
    /\ n_calls < MaxCalls
    /\ \E t \in DOMAIN new_elo_map, a \in {NUDGE_DISTANCE, 0 - NUDGE_DISTANCE} :
          /\ tier' = t
          /\ amount' = a
          /\ elo_map' = new_elo_map
          /\ new_elo_map' = _adjust_elo(t, a, MIN_TIER_DIFF, new_elo_map)
    /\ n_calls' = n_calls + 1
    /\ UNCHANGED <<pc, weapon, matches>>
    /\ UNCHANGED <<gainVars, trajVars, calVars>>
    /\ UNCHANGED poolVars

NextAdjust == CallAdjustElo

SpecAdjust == InitAdjust /\ [][NextAdjust]_vars

\* rating(t+1) - rating(t) >= min_diff for every adjacent pair of tiers.
MinGap(map, min_diff) ==
    \A t \in DOMAIN map : (t + 1) \in DOMAIN map => map[t + 1] - map[t] >= min_diff

\* C1: starting from a table with the minimum gap, every table _adjust_elo
\* returns for a nudge of +1 or -1 at any tier has the minimum gap again (and
\* the same tiers), however many calls came before.
C1_MinGapKept ==
    /\ DOMAIN new_elo_map = DOMAIN global_elo_map
    /\ MinGap(new_elo_map, MIN_TIER_DIFF)

\* C1's case: a -1 nudge at a tier whose lower neighbour was exactly the
\* minimum gap away, so that the neighbour had to move too.
C1_Witness ==
    /\ n_calls > 0
    /\ amount < 0
    /\ tier > MIN_TIER
    /\ elo_map[tier] - elo_map[tier - 1] = MIN_TIER_DIFF
    /\ new_elo_map[tier - 1] = elo_map[tier - 1] - 1
    /\ new_elo_map[tier] = elo_map[tier] - 1

------------------------------------------------------------------------\* C15: the adjacent tier (tier + 1 for a nudge up, tier - 1 for a nudge
\* down) is nudged if and only if the gap between the two tiers, after the
\* change at tier, is smaller than min_diff; a gap of exactly min_diff
\* cascades in neither direction.
C15_CascadeIffGapViolated ==
    n_calls > 0 =>
        /\ (amount > 0 /\ tier < MAX_TIER) =>
              (new_elo_map[tier + 1] # elo_map[tier + 1]
                 <=> elo_map[tier + 1] - (elo_map[tier] + amount) < MIN_TIER_DIFF)
        /\ (amount < 0 /\ tier > MIN_TIER) =>
              (new_elo_map[tier - 1] # elo_map[tier - 1]
                 <=> (elo_map[tier] + amount) - elo_map[tier - 1] < MIN_TIER_DIFF)

\* The tiers whose rating the call changed.
Changed == {t \in DOMAIN elo_map : new_elo_map[t] # elo_map[t]}

\* C16: the table returned has the tiers of the table passed in; the tiers
\* whose rating changed are one run without a hole that starts at tier and
\* goes up for a nudge of +1, down for a nudge of -1; each of them changed by
\* exactly the nudge, and no tier on the other side of tier changed.
C16_OneRunChanged ==
    n_calls > 0 =>
        /\ DOMAIN new_elo_map = DOMAIN elo_map
        /\ \A t \in Changed : new_elo_map[t] = elo_map[t] + amount
        /\ amount > 0 => Changed = tier..SetMax(Changed)
        /\ amount < 0 => Changed = SetMin(Changed)..tier

\* C16's case: a nudge up that moved several tiers above it and stopped below
\* the top tier, on a table in which tiers below it hold ratings.
C16_Witness ==
    /\ n_calls > 0
    /\ amount > 0
    /\ tier > MIN_TIER
    /\ Cardinality(Changed) >= 3
    /\ SetMax(Changed) < MAX_TIER
    /\ \A t \in DOMAIN elo_map : t < tier => new_elo_map[t] = elo_map[t]

-----
(* _calibration_score and _score_all_tiers *)

\* Bias scores are kept in units of 1/(Scale*Den).
Den == Fact(Cardinality(PlayerIds))

\* The list `players` of _calibration_score.
score_players(m, t, w, excl) ==
    SelectSeq(m.players,
              LAMBDA p : /\ p.competitiveTier = t
                         /\ get_main_weapon(m, p.subject) = w
                         /\ p.subject \notin excl)

\* len(players) < 2
too_fewMutOne(players) == Len(players) < 1

too_few(players) == Len(players) < 2

\* match_res: the sum of the players' rating gains, each with the tier's
\* table rating as initial rating.
RECURSIVE match_res(_, _, _, _, _)
match_res(players, m, map, t, excl) ==
    IF players = <<>> THEN 0
    ELSE match_res(SubSeq(players, 1, Len(players) - 1), m, map, t, excl)
         + elo_gain_for_match_for_user(m, players[Len(players)].subject, map,
                                       get_tier_elo(t, map) * Scale, excl).value

\* match_res / len(players)
per_playerMutSum(res, players) == Den * res

per_player(res, players) == (Den * res) \div Len(players)

RECURSIVE _calibration_score(_, _, _, _, _)
_calibration_score(ms, map, t, w, excl) ==
    IF ms = <<>> THEN 0
    ELSE LET res == _calibration_score(SubSeq(ms, 1, Len(ms) - 1), map, t, w, excl)
             m == ms[Len(ms)]
             players == score_players(m, t, w, excl)
         IN  IF too_few(players) THEN res
             ELSE res + per_player(match_res(players, m, map, t, excl), players)

\* result['tiers'] and result['total'] of _score_all_tiers.
_score_all_tiers(ms, map, excl) ==
    LET tiers == [t \in DOMAIN map |-> _calibration_score(ms, map, t, "Vandal", excl)]
    IN  [total |-> SumOver(DOMAIN map, [t \in DOMAIN map |-> Abs(tiers[t])]),
         tiers |-> tiers]

-----------------------------------------------------------------------------
(* Match corpora *)

\* The players of the corpus matches: the subject p1 and p2 share a tier, p3
\* is one tier above.
CorpusPlayers ==
    <<Player("p1", AVERAGE_TIER), Player("p2", AVERAGE_TIER), Player("p3", AVERAGE_TIER + 1)>>

\* Kill lists: the tier-12 players lose to p3 (KillsLose), beat p3 (KillsWin),
\* duel each other only (KillsEven), duel with the Phantom (KillsPhantom), and
\* the subject makes no kill (KillsNone).
KillsLose == <<Kill("p3", "p1", "VANDAL"), Kill("p1", "p2", "VANDAL"), Kill("p2", "p1", "VANDAL")>>
KillsWin == <<Kill("p1", "p3", "VANDAL"), Kill("p2", "p3", "VANDAL"), Kill("p3", "p1", "VANDAL")>>
KillsEven == <<Kill("p1", "p2", "VANDAL"), Kill("p2", "p1", "VANDAL")>>
KillsPhantom == <<Kill("p1", "p2", "PHANTOM"), Kill("p2", "p1", "PHANTOM"), Kill("p1", "p2", "ABILITY")>>
KillsNone == <<Kill("p2", "p1", "VANDAL")>>

\* The tier-12 players against a tier-4 player, each winning two duels of
\* three: with the seeded table (123 points apart) a little less than
\* expected, with tier 12 three points lower a little more.
EdgePlayers == <<Player("p1", AVERAGE_TIER), Player("p2", AVERAGE_TIER), Player("p3", 4)>>
\* Two pairs far apart in the table, each with an opponent 17 points above
\* it in the seeded table: tiers 9 and 10, tiers 23 and 26.
LowPlayers == <<Player("p1", 9), Player("p2", 9), Player("p3", 10)>>
HighPlayers == <<Player("p1", 23), Player("p2", 23), Player("p3", 26)>>

KillsEdge ==
    <<Kill("p1", "p3", "VANDAL"), Kill("p1", "p3", "VANDAL"), Kill("p3", "p1", "VANDAL"),
      Kill("p2", "p3", "VANDAL"), Kill("p2", "p3", "VANDAL"), Kill("p3", "p2", "VANDAL")>>

CorpusPool ==
    { Match("deathmatch", LAST_RANK_CHANGE + 1, CorpusPlayers, KillsLose),
      Match("deathmatch", LAST_RANK_CHANGE + 1, CorpusPlayers, KillsWin),
      Match("team deathmatch", LAST_RANK_CHANGE + 1, CorpusPlayers, KillsEven),
      Match("deathmatch", LAST_RANK_CHANGE + 1, CorpusPlayers, KillsPhantom),
      Match("team deathmatch", LAST_RANK_CHANGE + 1, CorpusPlayers, KillsNone),
      Match("competitive", LAST_RANK_CHANGE + 1, CorpusPlayers, KillsLose),
      Match("deathmatch", LAST_RANK_CHANGE, CorpusPlayers, KillsWin),
      Match("deathmatch", LAST_RANK_CHANGE + 1, EdgePlayers, KillsEdge),
      Match("deathmatch", LAST_RANK_CHANGE + 1, LowPlayers, KillsLose),
      Match("deathmatch", LAST_RANK_CHANGE + 1, HighPlayers, KillsLose) }

\* Longest corpus.
MaxMatches == 2

Corpora == SeqsUpTo(CorpusPool, MaxMatches)

-----------------------------------------------------------------------------
(* _calibration_score on any sub-corpus *)

InitScore ==
    /\ pc = "input"
    /\ matches \in Corpora
    /\ elo_map = global_elo_map
    /\ tier \in {AVERAGE_TIER, AVERAGE_TIER + 1}
    /\ weapon \in {"Vandal", "Phantom"}
    /\ excluded_users \in {{}, {"p1"}}
    /\ result = Idle
    /\ match = Idle /\ user_id = Idle /\ initial_elo = 0 /\ main_weapon = Idle
    /\ amount = 0 /\ new_elo_map = Idle /\ n_calls = 0
    /\ elos = Idle /\ idx = 0
    /\ best_elo_map = Idle /\ scores = Idle /\ best_score = 0
    /\ test_scores = Idle /\ iteration = 0 /\ ret = Idle
    /\ NoPool

\* result = _calibration_score(matches, elo_map, tier, weapon, excluded_users)
CallCalibrationScore ==
    /\ pc = "input"
    /\ pc' = "returned"
    /\ result' = _calibration_score(matches, elo_map, tier, weapon, excluded_users)
    /\ UNCHANGED <<match, user_id, initial_elo, excluded_users, main_weapon, matches>>
    /\ UNCHANGED <<tableVars, trajVars, calVars>>
    /\ UNCHANGED poolVars

NextScore == CallCalibrationScore

SpecScore == InitScore /\ [][NextScore]_vars

\* The players of match m with the target tier and the target main weapon.
Targets(m, t, w) ==
    {u \in {m.players[i].subject : i \in 1..Len(m.players)} :
        /\ m.players[TierOf(m, u)].competitiveTier = t
        /\ get_main_weapon(m, u) = w}

\* The sum of the rating gains of the players P of match m, each with the
\* tier's table rating as initial rating.
GainOf(m, P, map, t, excl) ==
    SumOver(P, [u \in P |->
        elo_gain_for_match_for_user(m, u, map, map[t] * Scale, excl).value])

\* C8 as stated: the result is the mean rating gain across all target players
\* of the matches that hold at least two of them (result * number of players =
\* sum of gains, in units of 1/(Scale*Den)), and 0 when no match qualifies.
C8_MeanAcrossPlayers ==
    pc = "returned" =>
        LET T(i) == Targets(matches[i], tier, weapon)
            qm == {i \in 1..Len(matches) : Cardinality(T(i)) >= 2}
            n == SumOver(qm, [i \in qm |-> Cardinality(T(i))])
            g == SumOver(qm, [i \in qm |->
                     GainOf(matches[i], T(i), elo_map, tier, excluded_users)])
        IN  IF qm = {} THEN result = 0 ELSE result * n = Den * g

\* C8 amended: the result is the sum, over the matches that hold at least two
\* target players outside the exclusion set, of the match's mean rating gain
\* across those players; 0 when no match qualifies.
C8_SumOfMatchMeans ==
    pc = "returned" =>
        LET T(i) == Targets(matches[i], tier, weapon) \ excluded_users
            qm == {i \in 1..Len(matches) : Cardinality(T(i)) >= 2}
        IN  /\ \A i \in qm :
                 (Den * GainOf(matches[i], T(i), elo_map, tier, excluded_users))
                     % Cardinality(T(i)) = 0
            /\ result = SumOver(qm, [i \in qm |->
                   (Den * GainOf(matches[i], T(i), elo_map, tier, excluded_users))
                       \div Cardinality(T(i))])

\* C8's case: two matches of the corpus qualify, a third kind of match does
\* not, and the sum of the match means is not the mean over the players.
C8_Witness ==
    /\ pc = "returned"
    /\ Len(matches) >= 2
    /\ LET T(i) == Targets(matches[i], tier, weapon) \ excluded_users
           qm == {i \in 1..Len(matches) : Cardinality(T(i)) >= 2}
       IN  /\ Cardinality(qm) = 2
           /\ result # 0
           /\ result * SumOver(qm, [i \in qm |-> Cardinality(T(i))])
                 # Den * SumOver(qm, [i \in qm |->
                       GainOf(matches[i], T(i), elo_map, tier, excluded_users)])

-----------------------------------------------------------------------------
(* process_dms_for_elo *)

\* match['matchInfo']['queueID'] in ('deathmatch', 'team deathmatch')
dm_queueMutOnlyDm(m) == m.matchInfo.queueID = "deathmatch"

dm_queue(m) == m.matchInfo.queueID \in {"deathmatch", "team deathmatch"}

\* elos before the loop.
elos_start == ("Unknown" :> <<0>>)

\* The first element of the sequence of a class met for the first time.
elos_first == get_tier_elo(AVERAGE_TIER, global_elo_map) * Scale

\* The loop body for match m (of a deathmatch queue) on the dict e.
dms_body(e, m, u) ==
    LET mw == get_main_weapon(m, u)
        e1 == IF mw \in DOMAIN e THEN e ELSE e @@ (mw :> <<elos_first>>)
        last == e1[mw][Len(e1[mw])]
        elo_gain == elo_gain_for_match_for_user(m, u, global_elo_map, last, {}).value
    IN  [e1 EXCEPT ![mw] = Append(@, last + elo_gain)]

InitDms ==
    /\ pc = "loop"
    /\ matches \in Corpora
    /\ user_id \in {"p1", "p3"}
    /\ elos = elos_start
    /\ idx = 0
    /\ elo_map = global_elo_map
    /\ match = Idle /\ initial_elo = 0 /\ excluded_users = {}
    /\ result = Idle /\ main_weapon = Idle
    /\ tier = Idle /\ weapon = Idle /\ amount = 0
    /\ new_elo_map = Idle /\ n_calls = 0
    /\ best_elo_map = Idle /\ scores = Idle /\ best_score = 0
    /\ test_scores = Idle /\ iteration = 0 /\ ret = Idle
    /\ NoPool

\* One pass of the loop of process_dms_for_elo, over the next match of the
\* corpus: skipped unless of a deathmatch queue.
DmsNextMatch ==
    /\ pc = "loop"
    /\ idx < Len(matches)
    /\ idx' = idx + 1
    /\ elos' = IF dm_queue(matches[idx + 1])
               THEN dms_body(elos, matches[idx + 1], user_id)
               ELSE elos
    /\ UNCHANGED <<pc, matches, gainVars, tableVars, calVars>>
    /\ UNCHANGED poolVars

\* return elos
DmsReturn ==
    /\ pc = "loop"
    /\ idx = Len(matches)
    /\ pc' = "returned"
    /\ UNCHANGED <<matches, gainVars, tableVars, trajVars, calVars>>
    /\ UNCHANGED poolVars

NextDms == DmsNextMatch \/ DmsReturn

SpecDms == InitDms /\ [][NextDms]_vars

\* The matches among the first n of the corpus that are of a deathmatch queue
\* and in which w is the subject's main weapon, as positions in corpus order.
ClassMatches(w, n) ==
    {i \in 1..n : /\ matches[i].matchInfo.queueID \in {"deathmatch", "team deathmatch"}
                  /\ get_main_weapon(matches[i], user_id) = w}

\* The i-th smallest element of the set S of numbers.
RECURSIVE Nth(_, _)
Nth(S, i) == IF i = 1 THEN SetMin(S) ELSE Nth(S \ {SetMin(S)}, i - 1)

\* The sequence of class w steps through its matches: one element per match
\* of the class among the first idx, each the previous element plus the
\* match's rating delta from that element.
ClassSteps(w) ==
    LET cm == ClassMatches(w, idx) IN
    /\ Len(elos[w]) = 1 + Cardinality(cm)
    /\ \A i \in 1..Cardinality(cm) :
          elos[w][i + 1] = elos[w][i]
              + elo_gain_for_match_for_user(matches[Nth(cm, i)], user_id,
                                            global_elo_map, elos[w][i], {}).value

\* C9 as stated: every reported class, "Unknown" included, starts at the
\* baseline (the table rating of AVERAGE_TIER) and steps through its matches.
C9_AllStartAtBaseline ==
    pc = "returned" =>
        \A w \in DOMAIN elos :
            /\ elos[w][1] = global_elo_map[AVERAGE_TIER] * Scale
            /\ ClassSteps(w)

\* C9 amended: the reported classes are "Unknown" and the subject's main
\* weapons in the deathmatch-queue matches; every class but "Unknown" starts
\* at the baseline, "Unknown" starts at 0, and each steps through its matches;
\* matches of other queues add nothing.
C9_StartAtBaselineButUnknown ==
    /\ DOMAIN elos = {"Unknown"} \cup
           {get_main_weapon(matches[i], user_id) :
               i \in {j \in 1..idx : matches[j].matchInfo.queueID
                                        \in {"deathmatch", "team deathmatch"}}}
    /\ \A w \in DOMAIN elos :
        /\ elos[w][1] = IF w = "Unknown" THEN 0
                        ELSE global_elo_map[AVERAGE_TIER] * Scale
        /\ ClassSteps(w)

\* C9's case: the function returned, a class took two steps to different
\* ratings, and a match of another queue was passed over.
C9_Witness ==
    /\ pc = "returned"
    /\ \E w \in DOMAIN elos :
          /\ w # "Unknown"
          /\ Len(elos[w]) = 3
          /\ elos[w][2] # elos[w][1]
          /\ elos[w][3] # elos[w][2]

-----------------------------------------------------------------------------
(* calibrate_elo *)

\* The matches calibrate_elo keeps: of a deathmatch queue and started after
\* LAST_RANK_CHANGE (gameStartMillis = game_start * 1000 against the
\* constant, here both in seconds).
cal_matches(ms) ==
    SelectSeq(ms, LAMBDA m : /\ m.matchInfo.queueID \in {"deathmatch", "team deathmatch"}
                             /\ m.matchInfo.game_start > LAST_RANK_CHANGE)

\* amount = int(NUDGE_DISTANCE * (score / abs(score)))
nudge(score) == IF score > 0 THEN NUDGE_DISTANCE ELSE 0 - NUDGE_DISTANCE

\* test_scores once the for loop of an iteration has run: for every tier
\* whose score (in `scores`) is not 0, the total of the table nudged at that
\* tier, and the nudge.
cal_test_scores(ms, sc, best_map, excl) ==
    [t \in {k \in DOMAIN sc.tiers : sc.tiers[k] # 0} |->
        [total |-> _score_all_tiers(ms,
                       _adjust_elo(t, nudge(sc.tiers[t]), MIN_TIER_DIFF, best_map),
                       excl).total,
         amount |-> nudge(sc.tiers[t])]]

\* sorted(test_scores, key=lambda y: abs(test_scores[y][0]))[0]: the sort is
\* stable and the keys come in table order.
smallest_ofMutLast(ts) ==
    LET least == SetMin({Abs(ts[t].total) : t \in DOMAIN ts})
    IN  SetMax({t \in DOMAIN ts : Abs(ts[t].total) = least})

smallest_of(ts) ==
    LET least == SetMin({Abs(ts[t].total) : t \in DOMAIN ts})
    IN  SetMin({t \in DOMAIN ts : Abs(ts[t].total) = least})

\* test_scores[smallest][0] >= best_score
no_improvementMutStrict(total, best) == total > best

no_improvement(total, best) == total >= best

\* What a Python function that ends without a return statement hands back.
ReturnedNone == [py |-> "None"]

\* What a function that returns the table `map` hands back.
ReturnedTable(map) == [py |-> "dict", dict |-> map]

\* Iterations of the search followed.
MaxIter == 3

InitCal ==
    /\ pc = "INITIAL"
    /\ matches \in Corpora
    /\ elo_map \in {global_elo_map, TightTable}
    /\ excluded_users \in {{}, {"p3"}}
    /\ best_elo_map = elo_map
    /\ scores = [total |-> 0, tiers |-> <<>>]
    /\ best_score = 0
    /\ test_scores = <<>>
    /\ iteration = 0
    /\ ret = [py |-> "running"]
    /\ match = Idle /\ user_id = Idle /\ initial_elo = 0
    /\ result = Idle /\ main_weapon = Idle
    /\ tier = Idle /\ weapon = Idle /\ amount = 0
    /\ new_elo_map = Idle /\ n_calls = 0
    /\ elos = Idle /\ idx = 0
    /\ NoPool

\* Lines 388-397: filter the corpus, score the initial table.
CalStart ==
    /\ pc = "INITIAL"
    /\ pc' = "ITERATING"
    /\ best_elo_map' = elo_map
    /\ scores' = _score_all_tiers(cal_matches(matches), elo_map, excluded_users)
    /\ best_score' = scores'.total
    /\ iteration' = 1
    /\ UNCHANGED <<test_scores, ret, matches, gainVars, tableVars, trajVars>>
    /\ UNCHANGED poolVars

\* An iteration in which no tier has a nonzero score: test_scores stays
\* empty and sorted(test_scores, ...)[0] raises IndexError.
CalRaise ==
    /\ pc = "ITERATING"
    /\ LET ts == cal_test_scores(cal_matches(matches), scores, best_elo_map, excluded_users)
       IN  /\ DOMAIN ts = {}
           /\ test_scores' = ts
    /\ pc' = "RAISED"
    /\ ret' = [py |-> "IndexError"]
    /\ UNCHANGED <<best_elo_map, scores, best_score, iteration>>
    /\ UNCHANGED <<matches, gainVars, tableVars, trajVars>>
    /\ UNCHANGED poolVars

\* An iteration whose best candidate is no improvement: "No improvement.
\* Stopping.", break, and the function ends.
CalStop ==
    /\ pc = "ITERATING"
    /\ LET ts == cal_test_scores(cal_matches(matches), scores, best_elo_map, excluded_users)
       IN  /\ DOMAIN ts # {}
           /\ no_improvement(ts[smallest_of(ts)].total, best_score)
           /\ test_scores' = ts
    /\ pc' = "CONVERGED"
    /\ ret' = ReturnedNone
    /\ UNCHANGED <<best_elo_map, scores, best_score, iteration>>
    /\ UNCHANGED <<matches, gainVars, tableVars, trajVars>>
    /\ UNCHANGED poolVars

\* An iteration whose best candidate improves: it is adopted.
CalAdopt ==
    /\ pc = "ITERATING"
    /\ iteration <= MaxIter
    /\ LET ts == cal_test_scores(cal_matches(matches), scores, best_elo_map, excluded_users)
       IN  /\ DOMAIN ts # {}
           /\ ~ no_improvement(ts[smallest_of(ts)].total, best_score)
           /\ test_scores' = ts
           /\ best_score' = ts[smallest_of(ts)].total
           /\ best_elo_map' = _adjust_elo(smallest_of(ts), ts[smallest_of(ts)].amount,
                                          MIN_TIER_DIFF, best_elo_map)
    /\ iteration' = iteration + 1
    /\ UNCHANGED <<pc, scores, ret>>
    /\ UNCHANGED <<matches, gainVars, tableVars, trajVars>>
    /\ UNCHANGED poolVars

NextCal == CalStart \/ CalRaise \/ CalStop \/ CalAdopt

SpecCal == InitCal /\ [][NextCal]_vars

-----------------------------------------------------------------------------
(* Claims about calibrate_elo (specification SpecCal) *)

\* C2: once best_score holds the initial total bias, no step of the search
\* raises it, and a step that adopts a candidate lowers it strictly.
C2_BestScoreDecreases ==
    [][pc = "ITERATING" =>
          /\ best_score' <= best_score
          /\ (iteration' # iteration \/ best_elo_map' # best_elo_map)
                => best_score' < best_score]_vars

\* C2's case: two candidates were adopted one after the other.
C2_Witness ==
    /\ pc = "ITERATING"
    /\ iteration >= 3
    /\ best_score < scores.total
    /\ best_elo_map # elo_map

\* C3: the search never ends otherwise than at the "No improvement.
\* Stopping." break, in the CONVERGED state.
C3_EndsConverged == pc \notin {"INITIAL", "ITERATING"} => pc = "CONVERGED"

\* Every tier's bias is zero under the initial table.
ZeroBias == \A t \in DOMAIN scores.tiers : scores.tiers[t] = 0

\* C4: with every tier's bias zero, the search goes from INITIAL to CONVERGED:
\* it builds no candidate, leaves best_table as it was and raises no error.
C4_ZeroBiasConverges ==
    (pc # "INITIAL" /\ ZeroBias) =>
        /\ pc \in {"ITERATING", "CONVERGED"}
        /\ DOMAIN test_scores = {}
        /\ best_elo_map = elo_map

\* C10: at CONVERGED the caller is handed the final best_table.
C10_ReturnsBestTable == pc = "CONVERGED" => ret = ReturnedTable(best_elo_map)

\* The per-tier biases of the current best_table over the filtered corpus.
current_bias == _score_all_tiers(cal_matches(matches), best_elo_map, excluded_users).tiers

\* C14: in every iteration, the first or a later one, the candidates are
\* built for exactly the tiers whose bias under the current best_table is
\* not zero, each nudged by one unit with the sign of that bias.
C14_CandidatesFromCurrentBias ==
    [][pc = "ITERATING" =>
          /\ DOMAIN test_scores' = {t \in DOMAIN best_elo_map : current_bias[t] # 0}
          /\ \A t \in DOMAIN test_scores' :
                current_bias[t] # 0 => test_scores'[t].amount = nudge(current_bias[t])]_vars

\* The total bias of table `map` over the filtered corpus.
total_bias(map) == _score_all_tiers(cal_matches(matches), map, excluded_users).total

\* The candidate table of an iteration for tier t, given the iteration's
\* test_scores ts.
candidate(ts, t) == _adjust_elo(t, ts[t].amount, MIN_TIER_DIFF, best_elo_map)

\* C17: at the start of every iteration best_score is the total bias of the
\* current best_table (so it is not negative); an iteration that adopts sets
\* best_table to the candidate of smallest total bias among the iteration's
\* candidates, the first such tier in table order on ties, and best_score to
\* that total; an iteration that does not adopt leaves both as they were and
\* ends the search.
C17_BestIsSmallestCandidate ==
    /\ [](pc = "ITERATING" => (best_score = total_bias(best_elo_map) /\ best_score >= 0))
    /\ [][pc = "ITERATING" =>
            IF iteration' # iteration
            THEN \E t \in DOMAIN test_scores' :
                    /\ best_elo_map' = candidate(test_scores', t)
                    /\ best_score' = total_bias(best_elo_map')
                    /\ \A u \in DOMAIN test_scores' :
                          /\ total_bias(candidate(test_scores', t))
                                <= total_bias(candidate(test_scores', u))
                          /\ total_bias(candidate(test_scores', t))
                                = total_bias(candidate(test_scores', u)) => t <= u
            ELSE /\ best_elo_map' = best_elo_map
                 /\ best_score' = best_score
                 /\ pc' # "ITERATING"]_vars

\* C17's case: an iteration with two candidates of equal total bias adopted
\* the one of the lower tier, and the search went on from it.
C17_Witness ==
    /\ pc = "ITERATING"
    /\ iteration >= 2
    /\ \E t, u \in DOMAIN test_scores :
          /\ t < u
          /\ test_scores[t].total = test_scores[u].total
          /\ test_scores[t].total = best_score
          /\ best_elo_map[t] # elo_map[t]
          /\ best_elo_map[u] = elo_map[u]

-----------------------------------------------------------------------------
(* MultiThread (src/utils.py, and the same class in src/auth.py) *)

\* Largest pool and longest argsVector followed.
MaxThreads == 3
MaxArgs == 3

\* The rest of the program's state while a pool runs.
NoEngine ==
    /\ match = Idle /\ user_id = Idle /\ initial_elo = 0 /\ excluded_users = {}
    /\ result = Idle /\ main_weapon = Idle /\ matches = Idle
    /\ elo_map = Idle /\ tier = Idle /\ weapon = Idle /\ amount = 0
    /\ new_elo_map = Idle /\ n_calls = 0
    /\ elos = Idle /\ idx = 0
    /\ best_elo_map = Idle /\ scores = Idle /\ best_score = 0
    /\ test_scores = Idle /\ iteration = 0 /\ ret = Idle

engineVars == <<gainVars, matches, tableVars, trajVars, calVars>>

Threads == 1..maxThreads

\* __init__: the lock is free, the iterator is at the start of argsVector,
\* the threads are made and not started.  The elements of argsVector are
\* argument tuples, here <<1>>, <<2>>, ...
InitPool ==
    /\ pc = "start"
    /\ maxThreads \in 1..MaxThreads
    /\ \E n \in 0..MaxArgs : argsVector = [i \in 1..n |-> <<i>>]
    /\ lock = 0
    /\ nextArgs = 0
    /\ thread = [w \in 1..maxThreads |-> "new"]
    /\ args = [w \in 1..maxThreads |-> <<>>]
    /\ calls = [w \in 1..maxThreads |-> <<>>]
    /\ joined = 0
    /\ NoEngine

\* self._lock.acquire() succeeds when the lock is in this state.
may_acquireMutAlways(l) == TRUE

may_acquire(l) == l = 0

\* start(): the threads are started one after the other, in pool order.
Start ==
    /\ pc = "start"
    /\ \E w \in Threads :
          /\ thread[w] = "new"
          /\ \A v \in Threads : v < w => thread[v] # "new"
          /\ thread' = [thread EXCEPT ![w] = "acquire"]
          /\ pc' = IF w = maxThreads THEN "join" ELSE "start"
    /\ UNCHANGED <<argsVector, maxThreads, lock, nextArgs, args, calls, joined>>
    /\ UNCHANGED engineVars

\* _doSome, top of the loop: self._lock.acquire()
Acquire(w) ==
    /\ thread[w] = "acquire"
    /\ may_acquire(lock)
    /\ lock' = w
    /\ thread' = [thread EXCEPT ![w] = "next"]
    /\ UNCHANGED <<pc, argsVector, maxThreads, nextArgs, args, calls, joined>>
    /\ UNCHANGED engineVars

\* args = self._nextArgs(), or StopIteration and break
NextArgs(w) ==
    /\ thread[w] = "next"
    /\ IF nextArgs < Len(argsVector)
       THEN /\ args' = [args EXCEPT ![w] = argsVector[nextArgs + 1]]
            /\ nextArgs' = nextArgs + 1
            /\ thread' = [thread EXCEPT ![w] = "finally"]
       ELSE /\ thread' = [thread EXCEPT ![w] = "finally_break"]
            /\ UNCHANGED <<args, nextArgs>>
    /\ UNCHANGED <<pc, argsVector, maxThreads, lock, calls, joined>>
    /\ UNCHANGED engineVars

\* finally: self._lock.release(), then on to the call or, after the break,
\* out of the loop and the thread ends.
Release(w) ==
    /\ thread[w] \in {"finally", "finally_break"}
    /\ lock' = 0
    /\ thread' = [thread EXCEPT ![w] = IF thread[w] = "finally" THEN "call" ELSE "done"]
    /\ UNCHANGED <<pc, argsVector, maxThreads, nextArgs, args, calls, joined>>
    /\ UNCHANGED engineVars

\* result = self._function(*all_args); no queue (queue_results=False)
CallFunction(w) ==
    /\ thread[w] = "call"
    /\ calls' = [calls EXCEPT ![w] = Append(@, args[w])]
    /\ thread' = [thread EXCEPT ![w] = "acquire"]
    /\ UNCHANGED <<pc, argsVector, maxThreads, lock, nextArgs, args, joined>>
    /\ UNCHANGED engineVars

\* join(): thread.join() for each thread in pool order.
Join ==
    /\ pc = "join"
    /\ joined < maxThreads
    /\ thread[joined + 1] = "done"
    /\ joined' = joined + 1
    /\ pc' = IF joined + 1 = maxThreads THEN "joined" ELSE "join"
    /\ UNCHANGED <<argsVector, maxThreads, lock, nextArgs, thread, args, calls>>
    /\ UNCHANGED engineVars

Worker(w) == Acquire(w) \/ NextArgs(w) \/ Release(w) \/ CallFunction(w)

NextPool == Start \/ Join \/ \E w \in 1..MaxThreads : w \in Threads /\ Worker(w)

SpecPool == InitPool /\ [][NextPool]_vars

\* The scheduler lets the main thread and every thread that can run take
\* its next step.
SpecPoolFair ==
    /\ SpecPool
    /\ WF_vars(Start) /\ WF_vars(Join)
    /\ \A w \in 1..MaxThreads : WF_vars(w \in Threads /\ Worker(w))

\* How many times thread w passed element e to the function.
Passed(w, e) == Cardinality({i \in 1..Len(calls[w]) : calls[w][i] = e})

\* The threads that hold element e as their args or have passed it on.
Takers(e) == {w \in Threads : args[w] = e \/ Passed(w, e) > 0}

=============================================================================
